---- MODULE Spec2Model ----
(***************************************************************************)
(* Model of the geographic POI clustering engine                           *)
(* (app/modules/poi_ingestion/poi_cluster_engine.py).                      *)
(*                                                                         *)
(* Geometry.  Every POI of a batch lies on one meridian (lng = 0) and its  *)
(* latitude is a whole number of arc-kilometres (1 arc-km = 1/6371 rad).   *)
(* On a meridian the haversine formula reduces exactly to R * |dlat|, so   *)
(* the great-circle distance of two POIs is |lat1 - lat2| km.  Angles in   *)
(* radians are kept as integers in units of 1/(6371*111) rad, the unit in  *)
(* which both thresholds of the engine (2.0/111 and 2.0/6371) are whole.   *)
(***************************************************************************)
EXTENDS Integers, Sequences, FiniteSets, TLC

\* ---------------------------------------------------------------- bounds
MaxN == 4
CrowdExtra == 1
MaxGatherN == 3
MaxOps == 3
MaxDest == 3

\* latitudes (arc-km) a batch of cluster_pois draws from: 0 and 2 are 2 km
\* apart, 0-100-200 is a chain of 100 km steps, 400 is far from everything
Pos == {0, 2, 100, 200, 400}
\* latitudes the batches handed directly to the neighbor-chain clusterer draw
\* from: 0-2-4 is a chain of 2 km steps, 7 is 3 km from the chain
KnnPos == {0, 2, 4, 7}
\* a batch of more than KNeighbors points has all its points at latitude 1
\* but two: one at latitude 3 and one at a latitude of NearPos
NearPos == {0, 1}
\* latitudes of points that are all more than 100 km apart: 0 and 110 are
\* 110 km apart, every other pair 190 km or more
FarPos == {0, 110, 300, 500, 700, 900}
\* latitudes of the batches that may hold a NaN coordinate
RaisePos == {0, 400}
\* latitudes of the batches of the concurrent ingestion tasks
GatherPos == {0, 400}
\* the ingestion tasks main() gathers, one per city
Cities == {1, 2}
\* a coordinate handed to haversine is 0, 1 or 2 times 2^q degrees, q one of
QExps == {-40, -530, -531, -532}
Multiples == {0, 1, 2}
\* the cache keys in use, the key patterns handed to delete_pattern, the
\* values handed to set ("obj" is a value json.dumps rejects), the ttl
\* arguments (0 stands for None and for 0, which "ttl or default" treats alike)
Keys == {"k1", "k2"}
Patterns == {"*", "k1*"}
SetValues == {"v", "None", "obj"}
Ttls == {0, 300}

\* ------------------------------------------------------ program constants
R == 6371
KmPerDegree == 111
NOISE == -1
KNeighbors == 10
EpsKm == 2
MaxDistanceKm == 2
DbscanMinSamples == 2
\* float('nan') as a coordinate: a value that is no latitude of any batch
NaN == 1000000
\* binary64: the exponent of the smallest positive float, 2^-1074
MinSubnormalExp == -1074
\* binary64: math.radians(1.0) = 1.117 * 2^-6
RadiansExp == -6
\* settings.CACHE_TTL
CACHE_TTL == 3600

VARIABLES
    pois,           \* the batch handed to cluster_pois
    pc,             \* where the call stands
    labels,         \* the labels of the strategy that ran last
    attempted,      \* history: the strategies run so far, each with its labels
    strategy,       \* history: the strategy whose labels the output is built from
    result,         \* the returned list of clusters
    i,              \* cluster_with_knn_distance: index of the for loop (from 1)
    queue,          \* its queue
    visited,        \* its visited set
    current_label,  \* its current_label
    nvisit,         \* history: how often each point was labelled by the loop
    tasks,          \* the ingest_destination tasks of main(), each with its batch
    hcall           \* a pair of calls haversine(p1, p2), haversine(p2, p1)

engineVars == <<pois, pc, labels, attempted, strategy, result,
                i, queue, visited, current_label, nvisit, tasks, hcall>>

\* the application around the engine: connections, cache helper, scheduler
VARIABLES
    phase,              \* main.py: where the lifespan of the application stands
    db_pool,            \* db_config.pool: "None", "open" or "closed"
    db_initialized,     \* db_config._initialized
    redis,              \* redis_config.redis: "None", "client" or "closed"
    redis_initialized,  \* redis_config._initialized
    life,               \* history: the connect and disconnect calls of the lifespan
    enabled,            \* CacheHelper.enabled
    store,              \* the keys held by the Redis server, each with value and ttl
    redis_ops,          \* history: the commands sent to the Redis server
    cache_ret,          \* history: the outcome of the last CacheHelper call
    lock,               \* the invocation whose SET NX created lock:<key>, 0 if none
    lp,                 \* the invocations of set_with_lock
    wrap,               \* the calls of a function wrapped with @cached
    sched,              \* a call of run_monthly_ingestion
    pool,               \* the connections of the pool, each free or in use
    txn                 \* the users of QueryExecutor.transaction()

connVars == <<phase, db_pool, db_initialized, redis, redis_initialized, life>>
cacheVars == <<enabled, store, redis_ops, cache_ret>>
lockVars == <<lock, lp>>
txnVars == <<pool, txn>>

appVars == <<connVars, cacheVars, lockVars, wrap, sched, txnVars>>

vars == <<engineVars, appVars>>

\* no CacheHelper call has returned yet
NoCall == [op |-> "none", ret |-> "None", raised |-> FALSE, caught |-> FALSE]

\* the application is not part of the run: nothing is connected or called
AppIdle ==
    /\ phase = "none"
    /\ db_pool = "None"
    /\ db_initialized = FALSE
    /\ redis = "None"
    /\ redis_initialized = FALSE
    /\ life = <<>>
    /\ enabled = FALSE
    /\ store = <<>>
    /\ redis_ops = 0
    /\ cache_ret = NoCall
    /\ lock = 0
    /\ lp = <<>>
    /\ wrap = <<>>
    /\ sched = <<>>
    /\ pool = <<>>
    /\ txn = <<>>

\* ------------------------------------------------------------- geometry
\* math.radians / np.radians, in units of 1/(R*KmPerDegree) rad
radians(lat) == IF lat = NaN THEN NaN ELSE lat * KmPerDegree

\* ---------------------------------------------------------------- helpers
Abs(x) == IF x < 0 THEN -x ELSE x

Range(s) == {s[k] : k \in DOMAIN s}

Min(S) == CHOOSE x \in S : \A y \in S : x <= y

RECURSIVE sorted_descending(_)
\* faulty variant: the descending sequence
sorted_descending(S) ==
    IF S = {} THEN <<>> ELSE sorted_descending(S \ {Min(S)}) \o <<Min(S)>>

RECURSIVE sorted(_)
\* sorted(clusters.keys()): the ascending sequence of a finite set of integers
sorted(S) == IF S = {} THEN <<>> ELSE <<Min(S)>> \o sorted(S \ {Min(S)})

RECURSIVE SelectIdx_reversed(_, _, _)
\* faulty variant: each element is put in front of those selected before it
SelectIdx_reversed(s, K, from) ==
    IF from > Len(s) THEN <<>>
    ELSE SelectIdx_reversed(s, K, from + 1) \o (IF from \in K THEN <<s[from]>> ELSE <<>>)

RECURSIVE SelectIdx_converted(_, _, _)
\* faulty variant: the elements selected are rebuilt with the latitude in
\* radians
SelectIdx_converted(s, K, from) ==
    IF from > Len(s) THEN <<>>
    ELSE (IF from \in K THEN <<[s[from] EXCEPT !.lat = radians(@)]>> ELSE <<>>)
         \o SelectIdx_converted(s, K, from + 1)

RECURSIVE SelectIdx(_, _, _)
\* the elements s[k] with k \in K, in the order of s, starting at index from
SelectIdx(s, K, from) ==
    IF from > Len(s) THEN <<>>
    ELSE (IF from \in K THEN <<s[from]>> ELSE <<>>) \o SelectIdx(s, K, from + 1)

RECURSIVE KSubsets(_, _)
\* the subsets of S that have k elements
KSubsets(S, k) ==
    IF k = 0 THEN {{}}
    ELSE IF Cardinality(S) < k THEN {}
    ELSE LET x == CHOOSE y \in S : TRUE
         IN  {T \cup {x} : T \in KSubsets(S \ {x}, k - 1)} \cup KSubsets(S \ {x}, k)


\* the haversine metric of the clustering libraries: the angle, in units of
\* 1/(R*KmPerDegree) rad, between two radian coordinates of one meridian
HaversineRad(c1, c2) == Abs(c1 - c2)

\* haversine(lat1, lon1, lat2, lon2) in km, for two points of one meridian
\* (lon1 = lon2), where 2 * R * asin(sqrt(sin(dlat / 2) ** 2)) = R * |dlat|
haversine(lat1, lon1, lat2, lon2) ==
    Abs(radians(lat2) - radians(lat1)) \div KmPerDegree

\* ---- haversine in binary64, for coordinates that are 0, 1 or 2 times 2^q
\* degrees with q <= -40.  math.radians of such a coordinate is 0, r or 2r with
\* r = 1.117 * 2^(q + RadiansExp), differences of them are exact, sin(t) = t
\* and cos(t) = 1.0 for angles this small.  A float is kept as <<>> for 0.0
\* and as <<e>> for 1.2477 * 2^e.
Zero == <<>>

\* math.sin(d / 2) ** 2 for d = m * r: the square of 1.117 * 2^e is
\* 1.2477 * 2^(2e), which rounds to 0.0 when it is below 2^-1075
SinHalfSquared(m, q) ==
    IF m = 0 THEN Zero
    ELSE LET e == q + RadiansExp + (Abs(m) - 1) - 1
         IN  IF 2 * e < MinSubnormalExp THEN Zero ELSE <<2 * e>>

\* haversine(lat1, lon1, lat2, lon2) for coordinates that are the given
\* multiples of 2^q degrees; a is kept as its two terms, and a result that is
\* not 0.0 as the a it is computed from (2 * R * asin(sqrt(a)) is 0.0 only
\* for a = 0.0)
haversine_binary64(lat1, lon1, lat2, lon2, q) ==
    LET dlat == lat2 - lat1
        dlon == lon2 - lon1
        a == <<SinHalfSquared(dlat, q), SinHalfSquared(dlon, q)>>
    IN  IF a = <<Zero, Zero>> THEN Zero ELSE <<a>>

\* coords_rad = np.radians([[p.lat, p.lng] ...]), the latitude column
CoordsRad(ps) == [k \in DOMAIN ps |-> radians(ps[k].lat)]


\* ------------------------------------------------ density clusterer (4.2)
\* min_cluster_size as cluster_with_hdbscan adjusts it to the batch size
MinClusterSize(n) ==
    IF n < 10 THEN 2
    ELSE IF n < 50 THEN 3
    ELSE (IF 3 >= n \div 50 THEN 3 ELSE n \div 50)

\* The label vectors hdbscan.HDBSCAN(...).fit_predict may return for n points:
\* each point is noise (-1) or in one of the clusters 0..c-1, and every
\* cluster has at least min_cluster_size points.  Which of them the library
\* returns for given coordinates is not modelled: every one is possible.
HdbscanOutcomes(n, min_cluster_size) ==
    {l \in [1..n -> NOISE..(n \div min_cluster_size - 1)] :
        LET used == Range(l) \ {NOISE}
        IN  /\ used = 0..(Cardinality(used) - 1)
            /\ \A c \in used :
                 Cardinality({k \in 1..n : l[k] = c}) >= min_cluster_size}

\* the rows of coords that hold a NaN
NaNRows(coords) == {k \in DOMAIN coords : coords[k] = NaN}

\* A row with a NaN is noise in every label vector the library returns (the
\* releases that accept such rows cluster the other rows only).
cluster_with_hdbscan(coords) ==
    {l \in HdbscanOutcomes(Len(coords), MinClusterSize(Len(coords))) :
        \A k \in NaNRows(coords) : l[k] = NOISE}

\* --------------------------------------- distance-threshold clusterer (4.3)
\* eps_deg = eps_km / 111.0, handed to DBSCAN as eps of the haversine metric,
\* whose distances are angles in radians
EpsDeg(eps_km) == eps_km * R

\* DBSCAN's radius neighbourhood of point k: every point within eps, k included
Neighborhood(coords, eps, k) ==
    {m \in DOMAIN coords : HaversineRad(coords[k], coords[m]) <= eps}

\* faulty variant: min_samples counted without the point itself
IsCore_others(coords, eps, k) ==
    Cardinality(Neighborhood(coords, eps, k) \ {k}) >= DbscanMinSamples

\* a core point has min_samples points in its neighbourhood, itself included
IsCore(coords, eps, k) ==
    Cardinality(Neighborhood(coords, eps, k)) >= DbscanMinSamples

RECURSIVE DbscanPush(_, _, _)
\* push the still unlabelled neighbours vs (ascending) on the stack
DbscanPush(stack, vs, lab) ==
    IF vs = <<>> THEN stack
    ELSE DbscanPush(IF lab[Head(vs)] = NOISE THEN Append(stack, Head(vs))
                    ELSE stack, Tail(vs), lab)

RECURSIVE DbscanExpand(_, _, _, _, _, _)
\* the depth-first expansion of cluster label_num from point k
DbscanExpand(coords, eps, lab, stack, k, label_num) ==
    LET lab1 == IF lab[k] = NOISE THEN [lab EXCEPT ![k] = label_num] ELSE lab
        stack1 == IF lab[k] = NOISE /\ IsCore(coords, eps, k)
                  THEN DbscanPush(stack, sorted(Neighborhood(coords, eps, k)), lab1)
                  ELSE stack
    IN  IF stack1 = <<>> THEN lab1
        ELSE DbscanExpand(coords, eps, lab1, SubSeq(stack1, 1, Len(stack1) - 1),
                          stack1[Len(stack1)], label_num)

RECURSIVE DbscanInner(_, _, _, _, _)
\* the outer loop over the points in input order
DbscanInner(coords, eps, lab, k, label_num) ==
    IF k > Len(coords) THEN lab
    ELSE IF lab[k] # NOISE \/ ~IsCore(coords, eps, k)
         THEN DbscanInner(coords, eps, lab, k + 1, label_num)
         ELSE DbscanInner(coords, eps,
                          DbscanExpand(coords, eps, lab, <<>>, k, label_num),
                          k + 1, label_num + 1)

\* DBSCAN(eps=eps_deg, min_samples=2, metric='haversine').fit_predict(coords)
cluster_with_dbscan_fallback(coords, eps_km) ==
    DbscanInner(coords, EpsDeg(eps_km), [k \in DOMAIN coords |-> NOISE], 1, 0)

\* ------------------------------------------------- cluster assembler (4.5)
\* faulty variant: cluster ids numbered from 0
ClusterIdOf_zero_based(cluster_num) == "cluster_" \o ToString(cluster_num - 1)

\* f"cluster_{cluster_num}"
ClusterIdOf(cluster_num) == "cluster_" \o ToString(cluster_num)

\* faulty variant: the noise label not filtered out, len(unique_labels) > 0
Usable_unfiltered(lab) == Range(lab) # {}

\* cluster_labels = [l for l in set(labels) if l != -1]; len(cluster_labels) > 0
Usable(lab) == (Range(lab) \ {NOISE}) # {}

\* faulty variant: noise points never set apart, as if include_noise were false
NoiseIdx_never(lab, include_noise) == {}

\* the indexes build_cluster_output appends to noise_cluster
NoiseIdx(lab, include_noise) ==
    {k \in DOMAIN lab : lab[k] = NOISE /\ include_noise}

\* the keys of the clusters dict
ClusterKeys(lab, include_noise) ==
    {lab[k] : k \in DOMAIN lab \ NoiseIdx(lab, include_noise)}

\* clusters[label]: the POIs of a label in input order
ClusterPois(lab, ps, include_noise, label) ==
    SelectIdx(ps, {k \in DOMAIN lab \ NoiseIdx(lab, include_noise) : lab[k] = label}, 1)

\* faulty variant: the noise points are collected but never emitted
NoiseCluster_dropped(lab, ps, include_noise) == <<>>

\* noise_cluster: the POIs labelled noise, in input order
NoiseCluster(lab, ps, include_noise) ==
    SelectIdx(ps, NoiseIdx(lab, include_noise), 1)

RECURSIVE RegularClusters(_, _, _, _, _)
\* the loop over sorted(clusters.keys()), cluster_num counting up
RegularClusters(keys, lab, ps, include_noise, cluster_num) ==
    IF keys = <<>> THEN <<>>
    ELSE <<[cluster_id |-> ClusterIdOf(cluster_num),
            pois |-> ClusterPois(lab, ps, include_noise, Head(keys))]>>
         \o RegularClusters(Tail(keys), lab, ps, include_noise, cluster_num + 1)

build_cluster_output(lab, ps, include_noise) ==
    LET keys == sorted(ClusterKeys(lab, include_noise))
        noise_cluster == NoiseCluster(lab, ps, include_noise)
    IN  RegularClusters(keys, lab, ps, include_noise, 1)
        \o (IF noise_cluster # <<>>
            THEN <<[cluster_id |-> ClusterIdOf(1 + Len(keys)),
                    pois |-> noise_cluster]>>
            ELSE <<>>)


\* ------------------------------------------- neighbor-chain clusterer (4.4)
\* max_distance_rad = max_distance_km / 6371.0
MaxDistanceRad(max_distance_km) == max_distance_km * KmPerDegree

\* n_neighbors = min(10, len(coords))
NNeighbors(coords) == IF KNeighbors <= Len(coords) THEN KNeighbors ELSE Len(coords)

\* the distance from c of its n_neighbors-th nearest point
KthDistance(coords, c) ==
    LET D(a) == HaversineRad(coords[c], coords[a])
    IN  CHOOSE d \in {D(a) : a \in DOMAIN coords} :
            /\ Cardinality({a \in DOMAIN coords : D(a) < d}) < NNeighbors(coords)
            /\ Cardinality({a \in DOMAIN coords : D(a) <= d}) >= NNeighbors(coords)

\* the points nearer to c than its n_neighbors-th nearest point
Nearer(coords, c) ==
    LET kd == KthDistance(coords, c)
    IN  {a \in DOMAIN coords : HaversineRad(coords[c], coords[a]) < kd}

\* the points as far from c as its n_neighbors-th nearest point
Tied(coords, c) ==
    LET kd == KthDistance(coords, c)
    IN  {a \in DOMAIN coords : HaversineRad(coords[c], coords[a]) = kd}

\* The rows nbrs.kneighbors(coords) may return for point c: the points
\* nearer than the n_neighbors-th distance and, of those at that distance,
\* as many as fill the row.  Which of several points at that distance the
\* library takes is not modelled: every choice is possible.
KNearest(coords, c) ==
    LET nearer == Nearer(coords, c)
        tied == Tied(coords, c)
        room == NNeighbors(coords) - Cardinality(nearer)
    IN  {nearer \cup T : T \in KSubsets(tied, room)}

\* the neighbours of row S that the inner for loop labels: j != current,
\* dist <= max_distance_rad, j not in visited
Reached(coords, S, current, vis, max_distance_km) ==
    {j \in S : /\ j # current
               /\ HaversineRad(coords[current], coords[j]) <= MaxDistanceRad(max_distance_km)
               /\ j \notin vis}

\* faulty variant: the for loop does not skip the points already visited
InVisited_never(k, vis) == FALSE

\* line 72: if i in visited
InVisited(k, vis) == k \in vis

RECURSIVE ByDistance(_, _, _)
\* a row of indices in the order kneighbors lists it: nearest first (equal
\* distances by index; the labels do not depend on the order among them)
ByDistance(coords, c, S) ==
    IF S = {} THEN <<>>
    ELSE LET j == CHOOSE a \in S : \A b \in S :
                     \/ HaversineRad(coords[c], coords[a]) < HaversineRad(coords[c], coords[b])
                     \/ /\ HaversineRad(coords[c], coords[a]) = HaversineRad(coords[c], coords[b])
                        /\ a <= b
         IN  <<j>> \o ByDistance(coords, c, S \ {j})

\* ---------------------------------------------------------- state machine
n == Len(pois)

Poi(k, lat) == [poi_uuid |-> k, lat |-> lat, lng |-> 0]

\* the batches of at most MaxN POIs over the latitudes P
Batches(P) ==
    UNION {{[k \in 1..m |-> Poi(k, f[k])] : f \in [1..m -> P]} : m \in 0..MaxN}

\* cluster_pois hands cluster_with_knn_distance two points or more
AtLeastTwo(B) == {ps \in B : Len(ps) >= 2}

\* batches of more than KNeighbors POIs: POI o[1] is at latitude 3, POI o[2]
\* at a latitude of NearPos, all others at latitude 1
CrowdBatches ==
    UNION {{[k \in 1..m |-> Poi(k, IF k = o[1] THEN 3 ELSE IF k = o[2] THEN o[3] ELSE 1)] :
               o \in {o \in (1..m) \X (1..m) \X NearPos : o[1] # o[2]}} :
           m \in (KNeighbors + 1)..(KNeighbors + CrowdExtra)}

\* batches of 5 POIs at five different latitudes of FarPos
FarBatches ==
    {[k \in 1..5 |-> Poi(k, f[k])] :
        f \in {g \in [1..5 -> FarPos] : \A a, b \in 1..5 : a # b => g[a] # g[b]}}

Fresh(ps, at) ==
    /\ pois = ps
    /\ pc = at
    /\ labels = <<>>
    /\ attempted = <<>>
    /\ strategy = "none"
    /\ result = <<>>
    /\ i = 0
    /\ queue = <<>>
    /\ visited = {}
    /\ current_label = 0
    /\ nvisit = [k \in DOMAIN ps |-> 0]
    /\ tasks = <<>>
    /\ hcall = <<>>
    /\ AppIdle

\* a call cluster_pois(pois)
Init == \E ps \in Batches(Pos) : Fresh(ps, "start")

\* a call cluster_with_knn_distance(coords_rad) followed by build_cluster_output
\* a call cluster_pois(pois) on five points all more than 100 km apart
InitFar == \E ps \in FarBatches : Fresh(ps, "start")

\* a call cluster_pois(pois) on a batch that may hold NaN coordinates
InitRaise == \E ps \in Batches(RaisePos \cup {NaN}) : Fresh(ps, "start")

\* ------------------------------------------------ cache helper (Redis)
\* The outcome of a piece of code run against the Redis server: it raised or
\* returned ret, issued ops commands in all, and left the server's keys as
\* store and lock:<key> as lk.
Raised(st, lk, ops) ==
    [raised |-> TRUE, caught |-> FALSE, ret |-> "exception", store |-> st, lock |-> lk, ops |-> ops]

Returned(r, st, lk, ops) ==
    [raised |-> FALSE, caught |-> FALSE, ret |-> r, store |-> st, lock |-> lk, ops |-> ops]

\* faulty variant: the exception is logged and raised again
Except_reraise(body, r) == body

\* try: body / except Exception: return r
Except(body, r) ==
    IF body.raised
    THEN [Returned(r, body.store, body.lock, body.ops) EXCEPT !.caught = TRUE]
    ELSE body

\* json.dumps(value) and json.loads(text): a text is kept as <<value>>
dumps(value) == <<value>>

loads(text) == text[1]

Serializable(value) == value # "obj"

\* the key is held by the server
Held(st, key) == st[key] # <<>>

\* 'k1*' matches k1, '*' matches every key
Matches(pattern, key) == pattern = "*" \/ (pattern = "k1*" /\ key = "k1")

\* CacheHelper.get(key); fail: the GET command raises
CacheGet(key, fail) ==
    IF ~enabled THEN Returned("None", store, lock, redis_ops)
    ELSE Except(
        IF redis = "None" THEN Raised(store, lock, redis_ops)
        ELSE IF fail THEN Raised(store, lock, redis_ops + 1)
        ELSE IF Held(store, key)
             THEN Returned(loads(store[key][1]), store, lock, redis_ops + 1)
             ELSE Returned("None", store, lock, redis_ops + 1),
        "None")

\* CacheHelper.set(key, value, ttl) against the keys st after ops commands;
\* fail: the SETEX command raises
CacheSetOn(st, lk, ops, key, value, ttl, fail) ==
    IF ~enabled THEN Returned("False", st, lk, ops)
    ELSE Except(
        IF redis = "None" THEN Raised(st, lk, ops)
        ELSE IF ~Serializable(value) THEN Raised(st, lk, ops)
        ELSE IF fail THEN Raised(st, lk, ops + 1)
        ELSE Returned("True",
                      [st EXCEPT ![key] = <<dumps(value), IF ttl = 0 THEN CACHE_TTL ELSE ttl>>],
                      lk, ops + 1),
        "False")

CacheSet(key, value, ttl, fail) == CacheSetOn(store, lock, redis_ops, key, value, ttl, fail)

\* faulty variant: delete without the enabled check
CacheDelete_unchecked(key, fail) ==
    Except(
        IF redis = "None" THEN Raised(store, lock, redis_ops)
        ELSE IF fail THEN Raised(store, lock, redis_ops + 1)
        ELSE Returned("True", [store EXCEPT ![key] = <<>>], lock, redis_ops + 1),
        "False")

\* CacheHelper.delete(key); fail: the DEL command raises
CacheDelete(key, fail) ==
    IF ~enabled THEN Returned("False", store, lock, redis_ops)
    ELSE Except(
        IF redis = "None" THEN Raised(store, lock, redis_ops)
        ELSE IF fail THEN Raised(store, lock, redis_ops + 1)
        ELSE Returned("True", [store EXCEPT ![key] = <<>>], lock, redis_ops + 1),
        "False")

\* CacheHelper.exists(key); fail: the EXISTS command raises
CacheExists(key, fail) ==
    IF ~enabled THEN Returned("False", store, lock, redis_ops)
    ELSE Except(
        IF redis = "None" THEN Raised(store, lock, redis_ops)
        ELSE IF fail THEN Raised(store, lock, redis_ops + 1)
        ELSE Returned(IF Held(store, key) THEN "True" ELSE "False", store, lock, redis_ops + 1),
        "False")

\* CacheHelper.delete_pattern(pattern); fail_at: the command that raises, 1
\* the scan, 2 the DEL, 0 none.  lock:<key> is a key of the server as well
\* and matches '*'.
CacheDeletePattern(pattern, fail_at) ==
    IF ~enabled THEN Returned("0", store, lock, redis_ops)
    ELSE Except(
        IF redis = "None" THEN Raised(store, lock, redis_ops)
        ELSE IF fail_at = 1 THEN Raised(store, lock, redis_ops + 1)
        ELSE LET keys == {k \in DOMAIN store : Held(store, k) /\ Matches(pattern, k)}
                 locks == IF lock # 0 /\ pattern = "*" THEN 1 ELSE 0
             IN  IF keys = {} /\ locks = 0 THEN Returned("0", store, lock, redis_ops + 1)
                 ELSE IF fail_at = 2 THEN Raised(store, lock, redis_ops + 2)
                 ELSE Returned(ToString(Cardinality(keys) + locks),
                               [k \in DOMAIN store |-> IF k \in keys THEN <<>> ELSE store[k]],
                               IF pattern = "*" THEN 0 ELSE lock,
                               redis_ops + 2),
        "0")

\* INCRBY by 1 on the text of a key: a key not held counts from 0, a text
\* that is no integer is an error; counting stops at 2
Incremented == [t \in {"0", "1"} |-> IF t = "0" THEN "1" ELSE "2"]

\* CacheHelper.increment(key); fail: the INCRBY command raises
CacheIncrement(key, fail) ==
    IF ~enabled THEN Returned("None", store, lock, redis_ops)
    ELSE Except(
        IF redis = "None" THEN Raised(store, lock, redis_ops)
        ELSE LET text == IF Held(store, key) THEN loads(store[key][1]) ELSE "0"
             IN  IF fail \/ text \notin DOMAIN Incremented THEN Raised(store, lock, redis_ops + 1)
                 ELSE Returned(Incremented[text],
                               [store EXCEPT ![key] = <<dumps(Incremented[text]),
                                                        IF Held(store, key) THEN store[key][2] ELSE -1>>],
                               lock, redis_ops + 1),
        "None")

\* a CacheHelper call op with outcome out has returned or raised
Outcome(op, out) ==
    /\ cache_ret' = [op |-> op, ret |-> out.ret, raised |-> out.raised, caught |-> out.caught]
    /\ store' = out.store
    /\ lock' = out.lock
    /\ redis_ops' = out.ops

\* One call of get, set, delete, exists, delete_pattern, increment by a
\* caller that awaits it
CallGet ==
    \E key \in Keys, fail \in BOOLEAN :
        /\ redis_ops < MaxOps
        /\ Outcome("get", CacheGet(key, fail))
        /\ UNCHANGED <<engineVars, connVars, enabled, lp, wrap, sched, txnVars>>

CallSet ==
    \E key \in Keys, value \in SetValues, ttl \in Ttls, fail \in BOOLEAN :
        /\ redis_ops < MaxOps
        /\ Outcome("set", CacheSet(key, value, ttl, fail))
        /\ UNCHANGED <<engineVars, connVars, enabled, lp, wrap, sched, txnVars>>

CallDelete ==
    \E key \in Keys, fail \in BOOLEAN :
        /\ redis_ops < MaxOps
        /\ Outcome("delete", CacheDelete(key, fail))
        /\ UNCHANGED <<engineVars, connVars, enabled, lp, wrap, sched, txnVars>>

CallExists ==
    \E key \in Keys, fail \in BOOLEAN :
        /\ redis_ops < MaxOps
        /\ Outcome("exists", CacheExists(key, fail))
        /\ UNCHANGED <<engineVars, connVars, enabled, lp, wrap, sched, txnVars>>

CallDeletePattern ==
    \E pattern \in Patterns, fail_at \in 0..2 :
        /\ redis_ops < MaxOps
        /\ Outcome("delete_pattern", CacheDeletePattern(pattern, fail_at))
        /\ UNCHANGED <<engineVars, connVars, enabled, lp, wrap, sched, txnVars>>

CallIncrement ==
    \E key \in Keys, fail \in BOOLEAN :
        /\ redis_ops < MaxOps
        /\ Outcome("increment", CacheIncrement(key, fail))
        /\ UNCHANGED <<engineVars, connVars, enabled, lp, wrap, sched, txnVars>>

\* ------------------------------------------------ set_with_lock
\* The invocations of set_with_lock run as tasks of one event loop: each
\* await is a point where another invocation, or the expiry of the lock, may
\* come in between.  lock is the invocation whose SET NX created lock:<key>
\* as it stands (0: the key is not held).
Procs == {1, 2}

LockKey == "k1"

IdleProc ==
    [pc |-> "idle", value |-> "v", result |-> "None", ret |-> "None",
     acquired |-> FALSE, deleted |-> FALSE, del_fails |-> 0, foreign |-> FALSE]

\* lines 190-195: the enabled check, lock_key and get_client, which is
\* outside the try
LockCall(p) ==
    \E value \in {"v", "obj"} :
        /\ lp[p].pc \in {"idle", "returned"}
        /\ redis_ops < MaxOps
        /\ lp' = [lp EXCEPT ![p] =
                    IF ~enabled THEN [IdleProc EXCEPT !.pc = "returned", !.ret = "False"]
                    ELSE IF redis = "None" THEN [IdleProc EXCEPT !.pc = "raised", !.ret = "exception"]
                    ELSE [IdleProc EXCEPT !.pc = "acquire", !.value = value]]
        /\ UNCHANGED <<engineVars, connVars, cacheVars, lock, wrap, sched, txnVars>>

\* lines 197-207: SET lock:<key> "1" NX EX lock_timeout
LockAcquire(p) ==
    \E fail \in BOOLEAN :
        /\ lp[p].pc = "acquire"
        /\ redis_ops' = redis_ops + 1
        /\ IF fail
           THEN /\ lp' = [lp EXCEPT ![p].pc = "except"]
                /\ lock' = lock
           ELSE IF lock # 0
           THEN /\ lp' = [lp EXCEPT ![p].pc = "returned", ![p].ret = "False"]
                /\ lock' = lock
           ELSE /\ lp' = [lp EXCEPT ![p].pc = "write", ![p].acquired = TRUE]
                /\ lock' = p
        /\ UNCHANGED <<engineVars, connVars, enabled, store, cache_ret, wrap, sched, txnVars>>

\* line 210: result = await self.set(key, value, ttl)
LockWrite(p) ==
    \E fail \in BOOLEAN :
        LET out == CacheSetOn(store, lock, redis_ops, LockKey, lp[p].value, 0, fail) IN
        /\ lp[p].pc = "write"
        /\ store' = out.store
        /\ redis_ops' = out.ops
        /\ lp' = [lp EXCEPT ![p].pc = IF out.raised THEN "except" ELSE "release",
                             ![p].result = out.ret]
        /\ UNCHANGED <<engineVars, connVars, enabled, cache_ret, lock, wrap, sched, txnVars>>

\* lines 213-215: DEL lock:<key>, return result
LockRelease_skipped_on_failure(p) ==
    \* faulty variant: a write that failed returns at once
    \E fail \in BOOLEAN :
        /\ lp[p].pc = "release"
        /\ IF lp[p].result = "False"
           THEN /\ lp' = [lp EXCEPT ![p].pc = "returned", ![p].ret = "False"]
                /\ UNCHANGED <<lock, redis_ops>>
           ELSE /\ redis_ops' = redis_ops + 1
                /\ IF fail
                   THEN /\ lp' = [lp EXCEPT ![p].pc = "except", ![p].del_fails = @ + 1]
                        /\ lock' = lock
                   ELSE /\ lp' = [lp EXCEPT ![p].pc = "returned", ![p].ret = lp[p].result,
                                             ![p].deleted = TRUE]
                        /\ lock' = 0
        /\ UNCHANGED <<engineVars, connVars, enabled, store, cache_ret, wrap, sched, txnVars>>

LockRelease(p) ==
    \E fail \in BOOLEAN :
        /\ lp[p].pc = "release"
        /\ redis_ops' = redis_ops + 1
        /\ IF fail
           THEN /\ lp' = [lp EXCEPT ![p].pc = "except", ![p].del_fails = @ + 1]
                /\ lock' = lock
           ELSE /\ lp' = [lp EXCEPT ![p].pc = "returned", ![p].ret = lp[p].result,
                                     ![p].deleted = TRUE]
                /\ lock' = 0
        /\ UNCHANGED <<engineVars, connVars, enabled, store, cache_ret, wrap, sched, txnVars>>

\* lines 217-224: except: try DEL lock:<key> except pass; return False
LockExceptRelease(p) ==
    \E fail \in BOOLEAN :
        /\ lp[p].pc = "except"
        /\ redis_ops' = redis_ops + 1
        /\ IF fail
           THEN /\ lp' = [lp EXCEPT ![p].pc = "returned", ![p].ret = "False",
                                     ![p].del_fails = @ + 1]
                /\ lock' = lock
           ELSE /\ lp' = [lp EXCEPT ![p].pc = "returned", ![p].ret = "False",
                                     ![p].deleted = TRUE,
                                     ![p].foreign = ~lp[p].acquired /\ lock \notin {0, p}]
                /\ lock' = 0
        /\ UNCHANGED <<engineVars, connVars, enabled, store, cache_ret, wrap, sched, txnVars>>

\* lock_timeout seconds after the SET the server drops lock:<key>
LockExpire ==
    /\ lock # 0
    /\ lock' = 0
    /\ UNCHANGED <<engineVars, connVars, cacheVars, lp, wrap, sched, txnVars>>

\* ------------------------------------------------ @cached
\* The calls of the decorated function: f(1), f(x=1, y=2), f(y=2, x=1);
\* kwargs are the items of the dict in the order of the call.
Calls ==
    {[args |-> <<1>>, kwargs |-> <<>>],
     [args |-> <<>>, kwargs |-> << <<"x", 1>>, <<"y", 2>> >>],
     [args |-> <<>>, kwargs |-> << <<"y", 2>>, <<"x", 1>> >>]}

\* what the decorated function returns
FuncResults == {"v", "obj"}

\* the order of the keyword names as strings
NameOrder == [x |-> 1, y |-> 2]

\* faulty variant: the items in the order of the call
sorted_items_unsorted(items) == items

\* sorted(kwargs.items()) for at most two items
sorted_items(items) ==
    IF Len(items) = 2 /\ NameOrder[items[1][1]] > NameOrder[items[2][1]]
    THEN <<items[2], items[1]>>
    ELSE items

\* CacheHelper.cache_key(*args, **kwargs): the md5 digest of
\* f"{args}:{sorted(kwargs.items())}", taken as free of collisions
cache_key(args, kwargs) == <<"md5", args, sorted_items(kwargs)>>

\* f"{key_prefix}:{func.__name__}:{cache.cache_key(*args, **kwargs)}"
WrapKey(call) == <<"key_prefix", "func", cache_key(call.args, call.kwargs)>>

WrapKeys == {WrapKey(call) : call \in Calls}

WrapIdle ==
    [pc |-> "idle", ttl |-> 0, call |-> <<>>, key |-> <<>>, cached_value |-> "None",
     execs |-> 0, result |-> "None", ret |-> "None", wrote |-> <<>>, caught |-> FALSE]

\* wrapper(*args, **kwargs) is called: cache = CacheHelper(), cache_key
WrapCall ==
    \E call \in Calls :
        /\ wrap.pc \in {"idle", "returned", "raised"}
        /\ redis_ops < MaxOps
        /\ wrap' = [WrapIdle EXCEPT !.pc = "lookup", !.ttl = wrap.ttl, !.call = call,
                                    !.key = WrapKey(call)]
        /\ UNCHANGED <<engineVars, connVars, cacheVars, lockVars, sched, txnVars>>

\* cached_value = await cache.get(cache_key); a value that is not None is
\* returned
WrapLookup ==
    \E fail \in BOOLEAN :
        LET out == CacheGet(wrap.key, fail) IN
        /\ wrap.pc = "lookup"
        /\ Outcome("get", out)
        /\ wrap' = [wrap EXCEPT !.cached_value = out.ret,
                                 !.pc = IF out.raised THEN "raised"
                                        ELSE IF out.ret # "None" THEN "returned" ELSE "exec",
                                 !.ret = out.ret]
        /\ UNCHANGED <<engineVars, connVars, enabled, lp, sched, txnVars>>

\* result = await func(*args, **kwargs), which returns or raises
WrapExec ==
    \E r \in FuncResults \cup {"exception"} :
        /\ wrap.pc = "exec"
        /\ wrap' = [wrap EXCEPT !.execs = @ + 1,
                                 !.result = r,
                                 !.pc = IF r = "exception" THEN "raised" ELSE "store"]
        /\ UNCHANGED <<engineVars, connVars, cacheVars, lockVars, sched, txnVars>>

\* await cache.set(cache_key, result, ttl); return result
WrapStore ==
    \E fail \in BOOLEAN :
        LET out == CacheSet(wrap.key, wrap.result, wrap.ttl, fail) IN
        /\ wrap.pc = "store"
        /\ Outcome("set", out)
        /\ wrap' = [wrap EXCEPT !.pc = IF out.raised THEN "raised" ELSE "returned",
                                 !.ret = IF out.raised THEN "exception" ELSE wrap.result,
                                 !.caught = out.caught,
                                 !.wrote = IF out.ret = "True" THEN out.store[wrap.key] ELSE <<>>]
        /\ UNCHANGED <<engineVars, connVars, enabled, lp, sched, txnVars>>

\* ------------------------------------------------ lifespan
\* life is the sequence of the connect and disconnect calls lifespan has
\* made, each with how it ended.
Called(what, how) == life' = Append(life, <<what, how>>)

\* await db_config.connect(): asyncpg.create_pool succeeds or raises
StartDb ==
    \E ok \in BOOLEAN :
        /\ phase = "none"
        /\ IF db_initialized
           THEN /\ Called("db.connect", "ok")
                /\ phase' = "db_connected"
                /\ UNCHANGED <<db_pool, db_initialized>>
           ELSE IF ok
           THEN /\ Called("db.connect", "ok")
                /\ db_pool' = "pool"
                /\ db_initialized' = TRUE
                /\ phase' = "db_connected"
           ELSE /\ Called("db.connect", "raised")
                /\ phase' = "failed"
                /\ UNCHANGED <<db_pool, db_initialized>>
        /\ UNCHANGED <<engineVars, redis, redis_initialized, cacheVars, lockVars, wrap, sched, txnVars>>

\* await redis_config.connect(): redis.from_url succeeds or raises
StartRedis ==
    \E ok \in BOOLEAN :
        /\ phase = "db_connected"
        /\ IF redis_initialized
           THEN /\ Called("redis.connect", "ok")
                /\ phase' = "serving"
                /\ UNCHANGED <<redis, redis_initialized>>
           ELSE IF ok
           THEN /\ Called("redis.connect", "ok")
                /\ redis' = "client"
                /\ redis_initialized' = TRUE
                /\ phase' = "serving"
           ELSE /\ Called("redis.connect", "raised")
                /\ phase' = "failed"
                /\ UNCHANGED <<redis, redis_initialized>>
        /\ UNCHANGED <<engineVars, db_pool, db_initialized, cacheVars, lockVars, wrap, sched, txnVars>>

\* shutdown, await db_config.disconnect(): pool.close() returns or raises;
\* the except branch of the shutdown logs the exception and ends lifespan
StopDb ==
    \E ok \in BOOLEAN :
        /\ phase = "serving"
        /\ IF db_pool = "None"
           THEN /\ Called("db.disconnect", "ok")
                /\ phase' = "db_closed"
                /\ UNCHANGED <<db_pool, db_initialized>>
           ELSE IF ok
           THEN /\ Called("db.disconnect", "ok")
                /\ db_pool' = "closed"
                /\ db_initialized' = FALSE
                /\ phase' = "db_closed"
           ELSE /\ Called("db.disconnect", "raised")
                /\ phase' = "stopped"
                /\ UNCHANGED <<db_pool, db_initialized>>
        /\ UNCHANGED <<engineVars, redis, redis_initialized, cacheVars, lockVars, wrap, sched, txnVars>>

\* await redis_config.disconnect(): redis.close() returns or raises
StopRedis ==
    \E ok \in BOOLEAN :
        /\ phase = "db_closed"
        /\ phase' = "stopped"
        /\ IF redis = "None"
           THEN /\ Called("redis.disconnect", "ok")
                /\ UNCHANGED <<redis, redis_initialized>>
           ELSE IF ok
           THEN /\ Called("redis.disconnect", "ok")
                /\ redis' = "closed"
                /\ redis_initialized' = FALSE
           ELSE /\ Called("redis.disconnect", "raised")
                /\ UNCHANGED <<redis, redis_initialized>>
        /\ UNCHANGED <<engineVars, db_pool, db_initialized, cacheVars, lockVars, wrap, sched, txnVars>>

\* ------------------------------------------------ scheduler
\* the destinations (name, lat, lng) and the dates date.today() may return
Destinations == {<<"Vadodara", 22, 73>>, <<"Amritsar", 31, 74>>}

Dates == {1, 2}

\* the parameters of ingest_destination; all but city_name have defaults
IngestParams == <<"city_name", "ingestion_date", "grid_size">>

\* Python's binding of positional arguments to parameters: more arguments
\* than parameters is a TypeError, raised by the call itself
Bind(params, args) ==
    IF Len(args) > Len(params) THEN [raised |-> TRUE, bound |-> <<>>]
    ELSE [raised |-> FALSE, bound |-> [j \in 1..Len(args) |-> <<params[j], args[j]>>]]

RECURSIVE BuildCoros(_, _)
\* [ingest_destination(name, lat, lng, ingestion_date) for name, lat, lng in
\* destinations]: the runs created, or the error of the first call that raises
BuildCoros(destinations, ingestion_date) ==
    IF destinations = <<>> THEN [raised |-> FALSE, runs |-> <<>>]
    ELSE LET dest == Head(destinations)
             run == Bind(IngestParams, <<dest[1], dest[2], dest[3], ingestion_date>>)
             rest == BuildCoros(Tail(destinations), ingestion_date)
         IN  IF run.raised \/ rest.raised THEN [raised |-> TRUE, runs |-> <<>>]
             ELSE [raised |-> FALSE, runs |-> <<run.bound>> \o rest.runs]

\* ingestion_date = date.today(); if not db_config._initialized: await
\* db_config.connect(), outside the try
SchedConnect ==
    \E ok \in BOOLEAN :
        /\ sched.pc = "start"
        /\ IF db_initialized
           THEN /\ sched' = [sched EXCEPT !.pc = "build"]
                /\ UNCHANGED <<db_pool, db_initialized>>
           ELSE IF ok
           THEN /\ sched' = [sched EXCEPT !.pc = "build"]
                /\ db_pool' = "pool"
                /\ db_initialized' = TRUE
           ELSE /\ sched' = [sched EXCEPT !.pc = "raised", !.error = "connect"]
                /\ UNCHANGED <<db_pool, db_initialized>>
        /\ UNCHANGED <<engineVars, phase, redis, redis_initialized, life, cacheVars, lockVars,
                       wrap, txnVars>>

\* the list of coroutines is built inside the try; an exception is logged
\* and raised again
SchedBuild ==
    LET coros == BuildCoros(sched.destinations, sched.today) IN
    /\ sched.pc = "build"
    /\ sched' = IF coros.raised
                THEN [sched EXCEPT !.pc = "raised", !.error = "TypeError"]
                ELSE [sched EXCEPT !.pc = "gather", !.runs = coros.runs]
    /\ UNCHANGED <<engineVars, connVars, cacheVars, lockVars, wrap, txnVars>>

\* await asyncio.gather(*coros): every run ends; the first exception of a
\* run is raised, logged and raised again
SchedGather ==
    \E failed \in SUBSET (1..Len(sched.runs)) :
        /\ sched.pc = "gather"
        /\ sched' = IF failed = {}
                    THEN [sched EXCEPT !.pc = "returned", !.failed = failed]
                    ELSE [sched EXCEPT !.pc = "raised", !.error = "run", !.failed = failed]
        /\ UNCHANGED <<engineVars, connVars, cacheVars, lockVars, wrap, txnVars>>

\* ------------------------------------------------ transactions
\* the connections of the pool and the tasks that use transaction()
Conns == {1, 2}

Users == {1, 2}

TxnIdle ==
    [pc |-> "idle", conn |-> 0, body_raised |-> FALSE, committed |-> FALSE,
     rolled_back |-> FALSE, releases |-> 0]

\* `async with query_executor.transaction() as conn`, as ingest.py writes
\* it: transaction() is a coroutine function, the coroutine it returns is no
\* context manager, and async with raises TypeError before it runs
TxnBare(u) ==
    /\ txn[u].pc \in {"idle", "returned", "raised"}
    /\ txn' = [txn EXCEPT ![u] = [TxnIdle EXCEPT !.pc = "raised"]]
    /\ UNCHANGED <<engineVars, connVars, cacheVars, lockVars, wrap, sched, pool>>

\* ctx = await query_executor.transaction(): conn = await pool.acquire(),
\* which waits for a free connection
TxnAcquire(u) ==
    \E c \in Conns :
        /\ txn[u].pc \in {"idle", "returned", "raised"}
        /\ pool[c] = "free"
        /\ pool' = [pool EXCEPT ![c] = "held"]
        /\ txn' = [txn EXCEPT ![u] = [TxnIdle EXCEPT !.pc = "enter", !.conn = c]]
        /\ UNCHANGED <<engineVars, connVars, cacheVars, lockVars, wrap, sched>>

\* async with ctx: __aenter__ awaits transaction.start(); when it raises,
\* __aexit__ is not called
TxnEnter(u) ==
    \E ok \in BOOLEAN :
        /\ txn[u].pc = "enter"
        /\ txn' = [txn EXCEPT ![u].pc = IF ok THEN "body" ELSE "raised"]
        /\ UNCHANGED <<engineVars, connVars, cacheVars, lockVars, wrap, sched, pool>>

\* the body of the async with completes or raises
TxnBody(u) ==
    \E raises \in BOOLEAN :
        /\ txn[u].pc = "body"
        /\ txn' = [txn EXCEPT ![u].pc = "exit", ![u].body_raised = raises]
        /\ UNCHANGED <<engineVars, connVars, cacheVars, lockVars, wrap, sched, pool>>

\* __aexit__: rollback when the body raised, commit otherwise, either of
\* which may raise; finally release_connection
TxnExit(u) ==
    \E ok \in BOOLEAN :
        /\ txn[u].pc = "exit"
        /\ txn' = [txn EXCEPT
                      ![u].pc = IF ok /\ ~txn[u].body_raised THEN "returned" ELSE "raised",
                      ![u].committed = ok /\ ~txn[u].body_raised,
                      ![u].rolled_back = ok /\ txn[u].body_raised,
                      ![u].releases = @ + 1]
        /\ pool' = [pool EXCEPT ![txn[u].conn] = "free"]
        /\ UNCHANGED <<engineVars, connVars, cacheVars, lockVars, wrap, sched>>

\* the engine is not part of the run
EngineIdle ==
    /\ pois = <<>>
    /\ pc = "idle"
    /\ labels = <<>>
    /\ attempted = <<>>
    /\ strategy = "none"
    /\ result = <<>>
    /\ i = 0
    /\ queue = <<>>
    /\ visited = {}
    /\ current_label = 0
    /\ nvisit = <<>>
    /\ tasks = <<>>
    /\ hcall = <<>>

InitKnn == \E ps \in AtLeastTwo(Batches(KnnPos)) \cup CrowdBatches : Fresh(ps, "step3")

knnVars == <<i, queue, visited, current_label, nvisit>>

\* faulty variant: only the first member of a cluster is mapped
Assign_first_member(poi_to_cluster, cluster) ==
    LET ids == {cluster.pois[m].poi_uuid : m \in DOMAIN cluster.pois \cap {1}}
    IN  [u \in DOMAIN poi_to_cluster \cup ids |->
            IF u \in ids THEN cluster.cluster_id ELSE poi_to_cluster[u]]

\* ingest.py lines 318-322: poi_to_cluster[poi_uuid] = cluster_id for every
\* member of one cluster; an entry already there is overwritten
Assign(poi_to_cluster, cluster) ==
    LET ids == {cluster.pois[m].poi_uuid : m \in DOMAIN cluster.pois}
    IN  [u \in DOMAIN poi_to_cluster \cup ids |->
            IF u \in ids THEN cluster.cluster_id ELSE poi_to_cluster[u]]

RECURSIVE PoiToCluster(_)
\* ingest.py lines 317-322 (step 7): the dict built over the clusters in order
PoiToCluster(clusters) ==
    IF clusters = <<>> THEN <<>>
    ELSE Assign(PoiToCluster(SubSeq(clusters, 1, Len(clusters) - 1)),
                clusters[Len(clusters)])

\* ingest.py line 336: poi_to_cluster.get(poi_uuid, None)
Get(poi_to_cluster, poi_uuid) ==
    IF poi_uuid \in DOMAIN poi_to_cluster THEN poi_to_cluster[poi_uuid] ELSE "None"

\* the batches of 1 to MaxGatherN POIs a task hands to cluster_pois
GatherBatches ==
    UNION {{[k \in 1..m |-> Poi(k, f[k])] : f \in [1..m -> GatherPos]} : m \in 1..MaxGatherN}

\* main(): every task has its batch ready (pois_for_clustering) and none has
\* called cluster_pois yet
InitGather ==
    /\ tasks \in [Cities -> {[batch |-> b, at |-> "ready", clusters |-> <<>>, density |-> <<>>,
                                poi_to_cluster |-> <<>>] :
                                b \in GatherBatches}]
    /\ AppIdle
    /\ hcall = <<>>
    /\ pois = <<>>
    /\ pc = "idle"
    /\ labels = <<>>
    /\ attempted = <<>>
    /\ strategy = "none"
    /\ result = <<>>
    /\ i = 0
    /\ queue = <<>>
    /\ visited = {}
    /\ current_label = 0
    /\ nvisit = <<>>

Return(out, by) ==
    /\ result' = out
    /\ strategy' = by
    /\ pc' = "done"

\* faulty variant: no special case for a single POI
CheckBase_no_single ==
    /\ pc = "start"
    /\ IF n = 0 THEN Return(<<>>, "empty")
       ELSE /\ pc' = "step1"
            /\ UNCHANGED <<result, strategy>>
    /\ UNCHANGED <<appVars, hcall, tasks, pois, labels, attempted, knnVars>>

\* lines 99-109: the base cases, else on to the strategies
CheckBase ==
    /\ pc = "start"
    /\ IF n = 0 THEN Return(<<>>, "empty")
       ELSE IF n = 1 THEN Return(<<[cluster_id |-> "cluster_1", pois |-> pois]>>, "single")
       ELSE /\ pc' = "step1"
            /\ UNCHANGED <<result, strategy>>
    /\ UNCHANGED <<appVars, hcall, tasks, pois, labels, attempted, knnVars>>

\* a strategy returned lab: accept it if it is usable, else go on at next
Attempt(name, lab, next) ==
    /\ labels' = lab
    /\ attempted' = Append(attempted, [name |-> name, labels |-> lab, raised |-> FALSE])
    /\ IF Usable(lab)
       THEN Return(build_cluster_output(lab, pois, TRUE), name)
       ELSE /\ pc' = next
            /\ UNCHANGED <<result, strategy>>

\* faulty variant: the exception of a strategy is caught and the next
\* strategy is tried
Raise_swallowed(name, next) ==
    /\ attempted' = Append(attempted, [name |-> name, labels |-> <<>>, raised |-> TRUE])
    /\ pc' = next
    /\ UNCHANGED <<labels, result, strategy>>

\* strategy name raised: cluster_pois has no try, so the exception leaves the
\* call, the strategy next in line is not run and nothing is returned
Raise(name, next) ==
    /\ attempted' = Append(attempted, [name |-> name, labels |-> <<>>, raised |-> TRUE])
    /\ pc' = "raised"
    /\ UNCHANGED <<labels, result, strategy>>

\* lines 111-119: HDBSCAN on batches of three points or more
Step1 ==
    /\ pc = "step1"
    /\ IF n >= 3
       THEN \E lab \in cluster_with_hdbscan(CoordsRad(pois)) :
                Attempt("hdbscan", lab, "step2")
       ELSE /\ pc' = "step2"
            /\ UNCHANGED <<labels, attempted, result, strategy>>
    /\ UNCHANGED <<appVars, hcall, tasks, pois, knnVars>>

\* line 115: HDBSCAN raises on a NaN coordinate (the releases that do not
\* accept such rows)
Step1Raise ==
    /\ pc = "step1"
    /\ n >= 3
    /\ NaNRows(CoordsRad(pois)) # {}
    /\ Raise("hdbscan", "step2")
    /\ UNCHANGED <<appVars, hcall, tasks, pois, knnVars>>

\* line 124: DBSCAN raises on a NaN coordinate
Step2Raise ==
    /\ pc = "step2"
    /\ n >= 2
    /\ NaNRows(CoordsRad(pois)) # {}
    /\ Raise("dbscan", "step3")
    /\ UNCHANGED <<appVars, hcall, tasks, pois, knnVars>>

\* lines 121-128: the DBSCAN fallback, on coordinates DBSCAN accepts
Step2 ==
    /\ pc = "step2"
    /\ IF n >= 2
       THEN /\ NaNRows(CoordsRad(pois)) = {}
            /\ Attempt("dbscan", cluster_with_dbscan_fallback(CoordsRad(pois), EpsKm), "step3")
       ELSE /\ pc' = "step3"
            /\ UNCHANGED <<labels, attempted, result, strategy>>
    /\ UNCHANGED <<appVars, hcall, tasks, pois, knnVars>>

\* faulty variant: visited is a module-level set that no call clears
KnnFit_shared_visited ==
    /\ pc = "step3"
    /\ labels' = [k \in 1..n |-> NOISE]
    /\ current_label' = 0
    /\ i' = 1
    /\ queue' = <<>>
    /\ pc' = "knn_for"
    /\ UNCHANGED <<appVars, hcall, tasks, pois, attempted, strategy, result, nvisit, visited>>

\* lines 55-69: fit the neighbours, labels = [-1] * n, no point visited
KnnFit ==
    /\ pc = "step3"
    /\ labels' = [k \in 1..n |-> NOISE]
    /\ current_label' = 0
    /\ visited' = {}
    /\ i' = 1
    /\ queue' = <<>>
    /\ pc' = "knn_for"
    /\ UNCHANGED <<appVars, hcall, tasks, pois, attempted, strategy, result, nvisit>>

\* lines 71-78: the next point of the for loop; an unvisited one starts a cluster
KnnFor ==
    /\ pc = "knn_for"
    /\ IF i > n
       THEN /\ pc' = "knn_return"
            /\ UNCHANGED <<i, labels, visited, queue, nvisit>>
       ELSE IF InVisited(i, visited)
       THEN /\ i' = i + 1
            /\ UNCHANGED <<pc, labels, visited, queue, nvisit>>
       ELSE /\ queue' = <<i>>
            /\ labels' = [labels EXCEPT ![i] = current_label]
            /\ visited' = visited \cup {i}
            /\ nvisit' = [nvisit EXCEPT ![i] = @ + 1]
            /\ pc' = "knn_while"
            /\ UNCHANGED i
    /\ UNCHANGED <<appVars, hcall, tasks, pois, attempted, strategy, result, current_label>>

\* lines 80-88: pop the queue and label the row of the popped point; an empty
\* queue ends the cluster.  The row of a point is read here, where the point
\* is popped, rather than for all points ahead of the loop.
KnnWhile ==
    /\ pc = "knn_while"
    /\ IF queue = <<>>
       THEN /\ current_label' = current_label + 1
            /\ i' = i + 1
            /\ pc' = "knn_for"
            /\ UNCHANGED <<labels, visited, queue, nvisit>>
       ELSE \E S \in KNearest(CoordsRad(pois), Head(queue)) :
              LET current == Head(queue)
                  new == Reached(CoordsRad(pois), S, current, visited, MaxDistanceKm)
              IN  /\ labels' = [k \in 1..n |-> IF k \in new THEN current_label ELSE labels[k]]
                  /\ visited' = visited \cup new
                  /\ nvisit' = [k \in 1..n |-> IF k \in new THEN nvisit[k] + 1 ELSE nvisit[k]]
                  /\ queue' = Tail(queue) \o ByDistance(CoordsRad(pois), current, new)
                  /\ UNCHANGED <<current_label, i, pc>>
    /\ UNCHANGED <<appVars, hcall, tasks, pois, attempted, strategy, result>>

\* lines 90 and 132: return labels; build the output without a noise cluster
KnnReturn ==
    /\ pc = "knn_return"
    /\ attempted' = Append(attempted, [name |-> "knn", labels |-> labels, raised |-> FALSE])
    /\ Return(build_cluster_output(labels, pois, FALSE), "knn")
    /\ UNCHANGED <<appVars, hcall, tasks, pois, labels, knnVars>>

\* ingest.py line 314: task t calls cluster_pois on its batch.  The call runs
\* without an await, so no other task runs before it returns.  The variables
\* of the clusterer keep what the call before left in them: only the code's
\* own assignments set them.
TaskCall(t) ==
    /\ pc = "idle"
    /\ tasks[t].at = "ready"
    /\ tasks' = [tasks EXCEPT ![t].at = "clustering"]
    /\ pois' = tasks[t].batch
    /\ pc' = "start"
    /\ attempted' = <<>>
    /\ strategy' = "none"
    /\ nvisit' = [k \in DOMAIN tasks[t].batch |-> 0]
    /\ UNCHANGED <<appVars, hcall, labels, result, i, queue, visited, current_label>>

\* ingest.py lines 314-322: the call of task t returned its clusters and the
\* task built its cluster assignment from them
TaskReturn(t) ==
    /\ pc = "done"
    /\ tasks[t].at = "clustering"
    /\ tasks' = [tasks EXCEPT ![t].at = "clustered",
                              ![t].clusters = result,
                              ![t].poi_to_cluster = PoiToCluster(result),
                              ![t].density = IF attempted # <<>> /\ attempted[1].name = "hdbscan"
                                             THEN attempted[1].labels ELSE <<>>]
    /\ pc' = "idle"
    /\ UNCHANGED <<appVars, hcall, pois, labels, attempted, strategy, result, knnVars>>

NextKnn == KnnFit \/ KnnFor \/ KnnWhile \/ KnnReturn

Next == CheckBase \/ Step1 \/ Step2 \/ KnnFit \/ KnnFor \/ KnnWhile \/ KnnReturn

Spec == Init /\ [][Next]_vars

SpecKnn == InitKnn /\ [][NextKnn]_vars

SpecFar == InitFar /\ [][Next]_vars

NextGather == Next \/ (\E t \in Cities : TaskCall(t)) \/ (\E t \in Cities : TaskReturn(t))

SpecGather == InitGather /\ [][NextGather]_vars

\* two coordinates; haversine has not been called on them yet
InitHaversine ==
    /\ hcall \in {[q |-> q, p1 |-> p1, p2 |-> p2, returned |-> FALSE, d12 |-> Zero, d21 |-> Zero] :
                     q \in QExps,
                     p1 \in [lat : Multiples, lon : Multiples],
                     p2 \in [lat : Multiples, lon : Multiples]}
    /\ AppIdle
    /\ tasks = <<>>
    /\ pois = <<>>
    /\ pc = "haversine"
    /\ labels = <<>>
    /\ attempted = <<>>
    /\ strategy = "none"
    /\ result = <<>>
    /\ i = 0
    /\ queue = <<>>
    /\ visited = {}
    /\ current_label = 0
    /\ nvisit = <<>>

\* the calls haversine(p1, p2) and haversine(p2, p1)
HaversineCall ==
    /\ pc = "haversine"
    /\ ~hcall.returned
    /\ hcall' = [hcall EXCEPT
                    !.returned = TRUE,
                    !.d12 = haversine_binary64(hcall.p1.lat, hcall.p1.lon,
                                               hcall.p2.lat, hcall.p2.lon, hcall.q),
                    !.d21 = haversine_binary64(hcall.p2.lat, hcall.p2.lon,
                                               hcall.p1.lat, hcall.p1.lon, hcall.q)]
    /\ UNCHANGED <<appVars, tasks, pois, pc, labels, attempted, strategy, result, knnVars>>

SpecHaversine == InitHaversine /\ [][HaversineCall]_vars

NextRaise == Next \/ Step1Raise \/ Step2Raise

SpecRaise == InitRaise /\ [][NextRaise]_vars

\* A CacheHelper over a server with no keys or with a key an earlier process
\* stored: caching enabled or not, the Redis client initialised or not, one
\* caller of set_with_lock
InitCache ==
    /\ EngineIdle
    /\ phase = "none"
    /\ db_pool = "None"
    /\ db_initialized = FALSE
    /\ redis \in {"None", "client"}
    /\ redis_initialized = (redis # "None")
    /\ life = <<>>
    /\ enabled \in BOOLEAN
    /\ store \in {[k \in Keys |-> <<>>],
                  [k \in Keys |-> IF k = "k1" THEN <<dumps("v"), CACHE_TTL>> ELSE <<>>]}
    /\ redis_ops = 0
    /\ cache_ret = NoCall
    /\ lock = 0
    /\ lp = [p \in {1} |-> IdleProc]
    /\ wrap = <<>>
    /\ sched = <<>>
    /\ pool = <<>>
    /\ txn = <<>>

SetWithLock ==
    \E p \in DOMAIN lp :
        LockCall(p) \/ LockAcquire(p) \/ LockWrite(p) \/ LockRelease(p) \/ LockExceptRelease(p)

NextCache ==
    \/ CallGet \/ CallSet \/ CallDelete \/ CallExists \/ CallDeletePattern \/ CallIncrement
    \/ SetWithLock \/ LockExpire

SpecCache == InitCache /\ [][NextCache]_vars

\* A function decorated with @cached(ttl, key_prefix) and its caller, over
\* a server with no keys: caching enabled or not, the client initialised or not
InitCached ==
    /\ EngineIdle
    /\ phase = "none"
    /\ db_pool = "None"
    /\ db_initialized = FALSE
    /\ redis \in {"None", "client"}
    /\ redis_initialized = (redis # "None")
    /\ life = <<>>
    /\ enabled \in BOOLEAN
    /\ store = [k \in WrapKeys |-> <<>>]
    /\ redis_ops = 0
    /\ cache_ret = NoCall
    /\ lock = 0
    /\ lp = <<>>
    /\ \E ttl \in Ttls : wrap = [WrapIdle EXCEPT !.ttl = ttl]
    /\ sched = <<>>
    /\ pool = <<>>
    /\ txn = <<>>

NextCached == WrapCall \/ WrapLookup \/ WrapExec \/ WrapStore

SpecCached == InitCached /\ [][NextCached]_vars

\* The application from the start of its process, with handlers that call
\* the cache at any time
InitLife ==
    /\ EngineIdle
    /\ phase = "none"
    /\ db_pool = "None"
    /\ db_initialized = FALSE
    /\ redis = "None"
    /\ redis_initialized = FALSE
    /\ life = <<>>
    /\ enabled = TRUE
    /\ store = [k \in Keys |-> <<>>]
    /\ redis_ops = 0
    /\ cache_ret = NoCall
    /\ lock = 0
    /\ lp = <<>>
    /\ wrap = <<>>
    /\ sched = <<>>
    /\ pool = <<>>
    /\ txn = <<>>

NextLife == StartDb \/ StartRedis \/ StopDb \/ StopRedis \/ CallGet \/ CallSet

SpecLife == InitLife /\ [][NextLife]_vars

RECURSIVE SeqsUpTo(_, _)
\* the sequences over S of length at most len
SeqsUpTo(S, len) ==
    IF len = 0 THEN {<<>>}
    ELSE LET shorter == SeqsUpTo(S, len - 1)
         IN  shorter \cup {Append(sq, x) : sq \in {t \in shorter : Len(t) = len - 1}, x \in S}

\* One call run_monthly_ingestion(destinations), from a script (database not
\* yet connected) or inside the running application
InitSched ==
    /\ EngineIdle
    /\ phase = "none"
    /\ db_initialized \in BOOLEAN
    /\ db_pool = (IF db_initialized THEN "pool" ELSE "None")
    /\ redis = "None"
    /\ redis_initialized = FALSE
    /\ life = <<>>
    /\ enabled = FALSE
    /\ store = <<>>
    /\ redis_ops = 0
    /\ cache_ret = NoCall
    /\ lock = 0
    /\ lp = <<>>
    /\ wrap = <<>>
    /\ \E destinations \in SeqsUpTo(Destinations, MaxDest), today \in Dates :
          sched = [pc |-> "start", destinations |-> destinations, today |-> today,
                   runs |-> <<>>, failed |-> {}, error |-> "none"]
    /\ pool = <<>>
    /\ txn = <<>>

NextSched == SchedConnect \/ SchedBuild \/ SchedGather

SpecSched == InitSched /\ [][NextSched]_vars

\* Two tasks that use transaction() over a connected pool
InitTxn ==
    /\ EngineIdle
    /\ phase = "serving"
    /\ db_pool = "pool"
    /\ db_initialized = TRUE
    /\ redis = "None"
    /\ redis_initialized = FALSE
    /\ life = <<>>
    /\ enabled = FALSE
    /\ store = <<>>
    /\ redis_ops = 0
    /\ cache_ret = NoCall
    /\ lock = 0
    /\ lp = <<>>
    /\ wrap = <<>>
    /\ sched = <<>>
    /\ pool = [c \in Conns |-> "free"]
    /\ txn = [u \in Users |-> TxnIdle]

NextTxn == \E u \in Users : TxnBare(u) \/ TxnAcquire(u) \/ TxnEnter(u) \/ TxnBody(u) \/ TxnExit(u)

SpecTxn == InitTxn /\ [][NextTxn]_vars

\* Two concurrent callers of set_with_lock on one key, caching enabled, the
\* client initialised
InitLock ==
    /\ EngineIdle
    /\ phase = "none"
    /\ db_pool = "None"
    /\ db_initialized = FALSE
    /\ redis = "client"
    /\ redis_initialized = TRUE
    /\ life = <<>>
    /\ enabled = TRUE
    /\ store = [k \in Keys |-> <<>>]
    /\ redis_ops = 0
    /\ cache_ret = NoCall
    /\ lock = 0
    /\ lp = [p \in Procs |-> IdleProc]
    /\ wrap = <<>>
    /\ sched = <<>>
    /\ pool = <<>>
    /\ txn = <<>>

NextLock == SetWithLock \/ LockExpire

SpecLock == InitLock /\ [][NextLock]_vars


\* ------------------------------------------------------------ properties
Done == pc = "done"

\* how often POI k of the batch occurs in the member lists of the output
Occurrences(k) ==
    Cardinality({cm \in {<<c, m>> : c \in DOMAIN result, m \in 1..n} :
                    /\ cm[2] \in DOMAIN result[cm[1]].pois
                    /\ result[cm[1]].pois[cm[2]] = pois[k]})

NoiseOf(lab) == {k \in DOMAIN lab : lab[k] = NOISE}

HasNonNoise(lab) == \E k \in DOMAIN lab : lab[k] # NOISE

Last(s) == s[Len(s)]

\* C1: every POI of the batch is in exactly one returned cluster, exactly
\* once, whichever strategy produced the labels
C1_Partition ==
    Done => /\ \A k \in 1..n : Occurrences(k) = 1
            /\ \A c \in DOMAIN result :
                 /\ Len(result[c].pois) <= n
                 /\ \A m \in DOMAIN result[c].pois : result[c].pois[m] \in Range(pois)

\* four points, some of them noise of the distance threshold, were partitioned
C1_Witness ==
    /\ Done
    /\ n = 4
    /\ strategy = "dbscan"
    /\ NoiseOf(labels) # {}

\* the order the strategies are tried in
StrategyOrder ==
    IF n >= 3 THEN <<"hdbscan", "dbscan", "knn">> ELSE <<"dbscan", "knn">>

\* C2: for n >= 2 the strategies run in the order density (n >= 3 only),
\* distance-threshold, neighbor-chain; each one before the last returned
\* noise only, the last one has a non-noise label or is the neighbor chain,
\* and the output is built from the labels of the last one
C2_FirstUsableWins ==
    (Done /\ n >= 2) =>
        /\ attempted # <<>>
        /\ Len(attempted) <= Len(StrategyOrder)
        /\ \A k \in DOMAIN attempted : attempted[k].name = StrategyOrder[k]
        /\ \A k \in 1..(Len(attempted) - 1) : ~HasNonNoise(attempted[k].labels)
        /\ Last(attempted).name = "knn" \/ HasNonNoise(Last(attempted).labels)
        /\ strategy = Last(attempted).name
        /\ result = build_cluster_output(Last(attempted).labels, pois,
                                         Last(attempted).name # "knn")

\* the density strategy returned noise only and the distance threshold won
C2_Witness ==
    /\ Done
    /\ n >= 3
    /\ Len(attempted) = 2
    /\ strategy = "dbscan"

\* C3: the cluster ids of the N returned clusters are cluster_1 .. cluster_N
\* in output order
C3_ConsecutiveIds ==
    Done => \A c \in DOMAIN result : result[c].cluster_id = "cluster_" \o ToString(c)

\* a regular cluster and the noise cluster after it were numbered
C3_Witness ==
    /\ Done
    /\ Len(result) = 2
    /\ NoiseOf(labels) # {}
    /\ result[2].cluster_id = "cluster_2"

\* C4: when density or distance-threshold labels are accepted, the noise
\* points, however many, make up exactly one extra cluster, the last one,
\* and no other cluster holds a noise point
C4_NoiseTrailing ==
    (Done /\ strategy \in {"hdbscan", "dbscan"}) =>
        LET noise == NoiseOf(labels)
            regular == Range(labels) \ {NOISE}
        IN  IF noise = {} THEN Len(result) = Cardinality(regular)
            ELSE /\ Len(result) = Cardinality(regular) + 1
                 /\ Len(Last(result).pois) = Cardinality(noise)
                 /\ Range(Last(result).pois) = {pois[k] : k \in noise}
                 /\ Last(result).cluster_id = "cluster_" \o ToString(Cardinality(regular) + 1)
                 /\ \A c \in 1..(Len(result) - 1) :
                      Range(result[c].pois) \cap {pois[k] : k \in noise} = {}

\* the distance threshold grouped two points and left two others as noise
C4_Witness ==
    /\ Done
    /\ strategy = "dbscan"
    /\ Cardinality(NoiseOf(labels)) = 2
    /\ Len(result) = 2
    /\ Len(result[2].pois) = 2

\* C5: an empty batch returns the empty list and a batch of one point
\* returns the single cluster cluster_1 holding that point; in both cases no
\* strategy is run
C5_BaseCases ==
    /\ n <= 1 => (pc \in {"start", "done"} /\ attempted = <<>>)
    /\ (Done /\ n = 0) => result = <<>>
    /\ (Done /\ n = 1) => result = <<[cluster_id |-> "cluster_1", pois |-> <<pois[1]>>]>>

\* a call on a single point has returned
C5_Witness ==
    /\ Done
    /\ n = 1
    /\ Len(result) = 1


\* the density strategy found nothing: it was skipped (n = 2) or returned
\* noise only
DensityFoundNothing ==
    /\ n >= 2
    /\ n >= 3 => /\ attempted # <<>>
                 /\ attempted[1].name = "hdbscan"
                 /\ ~HasNonNoise(attempted[1].labels)

Partitioned == \A k \in 1..n : Occurrences(k) = 1

\* C6 as claimed: when density clustering finds no dense core the output is
\* non-empty, partitions the batch, and is the neighbor chain's
C6_Original ==
    (Done /\ DensityFoundNothing) =>
        /\ result # <<>>
        /\ Partitioned
        /\ strategy = "knn"

\* C6 as amended: when density clustering finds no dense core the output is
\* non-empty and partitions the batch; it is built from the distance
\* threshold's labels when these have a non-noise label, and from the
\* neighbor chain's only when the distance threshold returned noise only
C6_FallbackGuarantee ==
    (Done /\ DensityFoundNothing) =>
        LET at == IF n >= 3 THEN 2 ELSE 1
        IN  /\ result # <<>>
            /\ Partitioned
            /\ Len(attempted) >= at
            /\ attempted[at].name = "dbscan"
            /\ IF HasNonNoise(attempted[at].labels)
               THEN /\ strategy = "dbscan"
                    /\ result = build_cluster_output(attempted[at].labels, pois, TRUE)
               ELSE /\ strategy = "knn"
                    /\ Len(attempted) = at + 1
                    /\ attempted[at + 1].name = "knn"
                    /\ result = build_cluster_output(attempted[at + 1].labels, pois, FALSE)

\* density and distance threshold both returned noise only for three points
\* and the neighbor chain produced the output
C6_Witness ==
    /\ Done
    /\ n >= 3
    /\ DensityFoundNothing
    /\ strategy = "knn"
    /\ Len(result) = n

\* ------------------------------------- properties of the neighbor chain
\* what is left to do of a call of the neighbor-chain clusterer: the points
\* not yet visited, the queue, the rest of the for loop, the steps after it
Measure ==
    4 * (n - Cardinality(visited)) + 2 * Len(queue) + 4 * (n + 1 - i)
    + (CASE pc = "step3" -> 3
         [] pc = "knn_for" -> 2
         [] pc = "knn_while" -> 1
         [] pc = "knn_return" -> 1
         [] OTHER -> 0)

\* a step of the neighbor-chain clusterer can be taken: the guards of
\* KnnFit, KnnFor, KnnWhile and KnnReturn
CanStep ==
    \/ pc \in {"step3", "knn_for", "knn_return"}
    \/ /\ pc = "knn_while"
       /\ queue = <<>> \/ KNearest(CoordsRad(pois), Head(queue)) # {}

\* C8: the neighbor-chain clusterer terminates (every step strictly lowers a
\* non-negative measure and only a returned call has no next step); no point
\* is labelled twice, and on return every point was labelled exactly once
\* with a label >= 0, the labels used being exactly 0 .. current_label - 1
C8_KnnTerminatesLabelled ==
    /\ [](\A k \in 1..n : nvisit[k] <= 1)
    /\ [](Done => /\ \A k \in 1..n : labels[k] >= 0 /\ nvisit[k] = 1
                  /\ Range(labels) = 0..(current_label - 1))
    /\ [](Measure >= 0 /\ (Done \/ CanStep))
    /\ [][Measure' < Measure]_vars

\* the clusterer returned after chaining points 4 km apart into one cluster
\* and starting a second one
C8_Witness ==
    /\ Done
    /\ current_label = 2
    /\ \E a, b \in 1..n : /\ labels[a] = labels[b]
                          /\ haversine(pois[a].lat, 0, pois[b].lat, 0) > MaxDistanceKm

\* the points in a row kneighbors may return for a (sure = FALSE), or in
\* every such row (sure = TRUE)
Listed(coords, a, sure) ==
    LET nearer == Nearer(coords, a)
        tied == Tied(coords, a)
    IN  IF ~sure \/ Cardinality(nearer) + Cardinality(tied) = NNeighbors(coords)
        THEN nearer \cup tied
        ELSE nearer

\* the arcs <<a, b>> of the neighbour graph: b is listed for a and within
\* the threshold of a
KnnArcs(sure) ==
    LET coords == CoordsRad(pois)
    IN  UNION {{<<a, b>> : b \in {b \in Listed(coords, a, sure) \ {a} :
                    HaversineRad(coords[a], coords[b]) <= MaxDistanceRad(MaxDistanceKm)}} :
               a \in 1..n}

RECURSIVE Linked(_, _)
\* the points linked to a point of S by a chain of arcs of A, whatever their
\* direction
Linked(S, A) ==
    LET T == S \cup {b \in 1..n : \E a \in S : <<a, b>> \in A \/ <<b, a>> \in A}
    IN  IF T = S THEN S ELSE Linked(T, A)

\* the labels are those of the connected components: points with one label
\* are linked by arcs of may, points linked by arcs of must have one label
ComponentLabels(may, must) ==
    \A a \in 1..n :
        /\ {b \in 1..n : labels[b] = labels[a]} \subseteq Linked({a}, may)
        /\ \A b \in Linked({a}, must) : labels[b] = labels[a]

RECURSIVE ChainWithin(_, _)
\* the points linked to a point of S by a chain of steps of at most km each
ChainWithin(S, km) ==
    LET T == S \cup {b \in 1..n : \E a \in S :
                        haversine(pois[a].lat, pois[a].lng, pois[b].lat, pois[b].lng) <= km}
    IN  IF T = S THEN S ELSE ChainWithin(T, km)

\* C10 as claimed: two points the distance threshold puts in one regular
\* group are linked by a chain of steps of at most 2 km, and a point farther
\* than 2 km from every other point is in no group
C10_Original ==
    \A t \in DOMAIN attempted :
        attempted[t].name = "dbscan" =>
            LET lab == attempted[t].labels
            IN  /\ \A a, b \in 1..n :
                     (lab[a] # NOISE /\ lab[a] = lab[b]) => b \in ChainWithin({a}, EpsKm)
                /\ \A a \in 1..n :
                     (\A b \in 1..n \ {a} :
                        haversine(pois[a].lat, pois[a].lng, pois[b].lat, pois[b].lng) > EpsKm)
                     => lab[a] = NOISE

\* the other points within the radius DBSCAN is given, as seen from point a
OthersWithin(a) ==
    Neighborhood(CoordsRad(pois), EpsDeg(EpsKm), a) \ {a}

\* C11 as claimed: a point with fewer than 2 other points within the
\* threshold is labelled noise by the distance-threshold strategy
C11_Original ==
    \A t \in DOMAIN attempted :
        attempted[t].name = "dbscan" =>
            \A a \in 1..n :
                Cardinality(OthersWithin(a)) < 2 => attempted[t].labels[a] = NOISE

\* C11 as amended: the distance-threshold strategy labels a point noise
\* exactly when no other point lies within the radius it hands to DBSCAN; one
\* other point within it is enough for a cluster label
C11_NoiseIffAlone ==
    \A t \in DOMAIN attempted :
        attempted[t].name = "dbscan" =>
            \A a \in 1..n :
                attempted[t].labels[a] = NOISE <=> OthersWithin(a) = {}

\* the distance threshold labelled a point with exactly one other point
\* within its radius and left a lone point as noise
C11_Witness ==
    \E t \in DOMAIN attempted :
        /\ attempted[t].name = "dbscan"
        /\ \E a, b \in 1..n :
              /\ Cardinality(OthersWithin(a)) = 1
              /\ attempted[t].labels[a] # NOISE
              /\ OthersWithin(b) = {}
              /\ attempted[t].labels[b] = NOISE

\* ------------------------------------------------ the scenarios of the spec
\* every two points of the batch are more than km apart
MutuallyApart(km) ==
    \A a, b \in 1..n :
        a # b => haversine(pois[a].lat, pois[a].lng, pois[b].lat, pois[b].lng) > km

\* C12 as claimed, for the calls in which the density strategy returns noise
\* only: on 5 points all mutually more than 100 km apart the distance
\* threshold yields no usable result either, the neighbor chain runs, and the
\* output is the 5 singleton clusters cluster_1 .. cluster_5
C12_Original ==
    (Done /\ n = 5 /\ MutuallyApart(100) /\ DensityFoundNothing) =>
        /\ Len(attempted) = 3
        /\ attempted[2].name = "dbscan"
        /\ ~HasNonNoise(attempted[2].labels)
        /\ strategy = "knn"
        /\ Len(result) = 5
        /\ \A c \in DOMAIN result :
             /\ result[c].cluster_id = "cluster_" \o ToString(c)
             /\ Len(result[c].pois) = 1

\* ------------------------------------------- properties of the assembler
\* the place in the input batch of a POI record of the output
IndexOf(poi) == CHOOSE k \in 1..n : pois[k] = poi

\* C14: in every returned cluster, the trailing noise cluster included, the
\* members are in the relative order of the input batch
C14_InputOrder ==
    Done => \A c \in DOMAIN result :
               \A a, b \in DOMAIN result[c].pois :
                   a < b => IndexOf(result[c].pois[a]) < IndexOf(result[c].pois[b])

\* a regular cluster and the noise cluster were returned, each with two
\* members that are not next to each other in the input
C14_Witness ==
    /\ Done
    /\ Len(result) = 2
    /\ NoiseOf(labels) # {}
    /\ \A c \in DOMAIN result :
         /\ Len(result[c].pois) = 2
         /\ IndexOf(result[c].pois[2]) > IndexOf(result[c].pois[1]) + 1

\* the labels that make regular clusters of the output: all but the noise
\* label, which is a regular label only for the neighbor chain
RegularLabels ==
    Range(labels) \ (IF strategy = "knn" THEN {} ELSE {NOISE})

\* C15: the regular clusters come in ascending order of the integer label:
\* the c-th cluster holds exactly the points of the c-th smallest regular
\* label, whichever label is seen first in the input
C15_AscendingLabels ==
    (Done /\ n >= 2) =>
        \A c \in 1..Cardinality(RegularLabels) :
            /\ c \in DOMAIN result
            /\ \E l \in RegularLabels :
                  /\ Cardinality({m \in RegularLabels : m < l}) = c - 1
                  /\ {IndexOf(result[c].pois[a]) : a \in DOMAIN result[c].pois}
                        = {k \in 1..n : labels[k] = l}

\* the first point of the input has the larger of two labels and is in the
\* second cluster
C15_Witness ==
    /\ Done
    /\ strategy = "hdbscan"
    /\ labels[1] = 1
    /\ Len(result) >= 2
    /\ pois[1] \in Range(result[2].pois)
    /\ pois[1] \notin Range(result[1].pois)

\* ------------------------------------------- properties of the orchestrator
\* C16: a strategy that raises ends the call: no later strategy is run and
\* nothing is returned; a later strategy runs only after every earlier one
\* completed with noise labels only; no strategy runs twice in a call
C16_RaisePropagates ==
    /\ \A k \in 1..(Len(attempted) - 1) :
         /\ ~attempted[k].raised
         /\ ~HasNonNoise(attempted[k].labels)
    /\ (attempted # <<>> /\ Last(attempted).raised) =>
         /\ pc = "raised"
         /\ result = <<>>
         /\ strategy = "none"
    /\ pc = "raised" => (attempted # <<>> /\ Last(attempted).raised)
    /\ \A a, b \in DOMAIN attempted : a # b => attempted[a].name # attempted[b].name

\* the density strategy completed with noise only on a batch with a NaN
\* coordinate, the distance threshold raised, and the call ended
C16_Witness ==
    /\ pc = "raised"
    /\ Len(attempted) = 2
    /\ ~attempted[1].raised
    /\ attempted[2].name = "dbscan"
    /\ attempted[2].raised

\* C17: no step of cluster_pois changes the input batch, neither the list
\* nor a field of a record, and every member of a returned cluster is one of
\* the input records as they were handed in
C17_NoSideEffects ==
    /\ [][pois' = pois]_vars
    /\ [](Done => \A c \in DOMAIN result :
                     \A m \in DOMAIN result[c].pois :
                         \E k \in 1..n : result[c].pois[m] = pois[k])

\* a call on a full batch returned two clusters or more
C17_Witness ==
    /\ Done
    /\ n = MaxN
    /\ Len(result) >= 2
    /\ \A k \in 1..n : \E c \in DOMAIN result : pois[k] \in Range(result[c].pois)

\* ------------------------------------------ properties of concurrent calls
RECURSIVE ChainOf(_, _, _)
\* the points of batch ps linked to a point of S by a chain of steps of at
\* most km each
ChainOf(ps, S, km) ==
    LET T == S \cup {b \in DOMAIN ps : \E a \in S :
                        haversine(ps[a].lat, ps[a].lng, ps[b].lat, ps[b].lng) <= km}
    IN  IF T = S THEN S ELSE ChainOf(ps, T, km)

\* the labels of the neighbor chain on a batch of at most KNeighbors points,
\* where every point is in every row: the chains under the threshold,
\* numbered by their first point
ChainLabels(ps) ==
    LET first(k) == Min(ChainOf(ps, {k}, MaxDistanceKm))
    IN  [k \in DOMAIN ps |->
            Cardinality({first(j) : j \in {j \in DOMAIN ps : first(j) < first(k)}})]

\* what cluster_pois returns for batch ps when run alone, given the labels
\* density the density library returns for the batch (<<>> when it is not run)
Alone(ps, density) ==
    IF Len(ps) = 0 THEN <<>>
    ELSE IF Len(ps) = 1 THEN <<[cluster_id |-> "cluster_1", pois |-> ps]>>
    ELSE IF Len(ps) >= 3 /\ Usable(density) THEN build_cluster_output(density, ps, TRUE)
    ELSE LET dbscan == cluster_with_dbscan_fallback(CoordsRad(ps), EpsKm)
         IN  IF Usable(dbscan) THEN build_cluster_output(dbscan, ps, TRUE)
             ELSE build_cluster_output(ChainLabels(ps), ps, FALSE)

\* C18: whatever the order in which the ingestion tasks call cluster_pois,
\* every call returns what it returns when run alone on its batch
C18_CallsIndependent ==
    \A t \in DOMAIN tasks :
        tasks[t].at = "clustered" =>
            tasks[t].clusters = Alone(tasks[t].batch, tasks[t].density)

\* two tasks with different batches have their clusters; the one that called
\* second got two clusters from the neighbor chain after the first call had
\* run the neighbor chain too
C18_Witness ==
    /\ \A t \in DOMAIN tasks : tasks[t].at = "clustered"
    /\ DOMAIN tasks # {}
    /\ tasks[1].batch # tasks[2].batch
    /\ strategy = "knn"
    /\ Len(result) = 2
    /\ visited # {}
    /\ \A t \in DOMAIN tasks : Len(tasks[t].clusters) >= 2

\* ------------------------------------------------ properties of haversine
\* C19 as claimed: haversine(p1, p2) = haversine(p2, p1), and the distance is
\* zero exactly when the two coordinates are identical
C19_Original ==
    (pc = "haversine" /\ hcall.returned) =>
        /\ hcall.d12 = hcall.d21
        /\ hcall.d12 = Zero <=> hcall.p1 = hcall.p2

\* ------------------------------------- properties of the cluster assignment
\* C20: the assignment a task builds from its clusters has an entry for every
\* POI identifier of the batch and for no other; the entry of a POI is the id
\* of the one cluster that holds the POI, so the lookup made when the POI is
\* stored never yields None
C20_AssignmentTotal ==
    \A t \in DOMAIN tasks :
        tasks[t].at = "clustered" =>
            LET batch == tasks[t].batch
                clusters == tasks[t].clusters
            IN  /\ DOMAIN tasks[t].poi_to_cluster = {batch[k].poi_uuid : k \in DOMAIN batch}
                /\ \A k \in DOMAIN batch :
                     LET id == Get(tasks[t].poi_to_cluster, batch[k].poi_uuid)
                     IN  /\ id # "None"
                         /\ \E c \in DOMAIN clusters :
                               /\ clusters[c].cluster_id = id
                               /\ batch[k] \in Range(clusters[c].pois)
                         /\ \A c \in DOMAIN clusters :
                               batch[k] \in Range(clusters[c].pois) => clusters[c].cluster_id = id

\* a task mapped the three POIs of its batch to two clusters, one of them
\* holding two POIs
C20_Witness ==
    \E t \in DOMAIN tasks :
        /\ tasks[t].at = "clustered"
        /\ Len(tasks[t].batch) = 3
        /\ Len(tasks[t].clusters) = 2
        /\ Get(tasks[t].poi_to_cluster, 1) = "cluster_1"
        /\ {tasks[t].poi_to_cluster[u] : u \in DOMAIN tasks[t].poi_to_cluster}
              = {"cluster_1", "cluster_2"}

\* ------------------------------------------ properties of the noise cluster
\* the output ends with a noise cluster: the labels it is built from are a
\* density or distance-threshold strategy's and some of them are noise
HasNoiseCluster ==
    /\ Done
    /\ strategy \in {"hdbscan", "dbscan"}
    /\ NoiseOf(labels) # {}

\* C26: an output with a noise cluster has a regular cluster before it: the
\* noise cluster is the last of two clusters or more, its members are the
\* noise points, and the first cluster holds a point that is not noise
C26_NoiseNeverAlone ==
    HasNoiseCluster =>
        /\ Len(result) >= 2
        /\ Range(Last(result).pois) = {pois[k] : k \in NoiseOf(labels)}
        /\ Last(result).cluster_id # "cluster_1"
        /\ \E k \in 1..n : labels[k] # NOISE /\ pois[k] \in Range(result[1].pois)

\* the density strategy's labels were accepted with a single regular cluster
\* and noise points
C26_Witness ==
    /\ HasNoiseCluster
    /\ strategy = "hdbscan"
    /\ Len(result) = 2
    /\ Cardinality(NoiseOf(labels)) >= 2

\* the input position of the earliest member of cluster c of the output
Earliest(c) == Min({IndexOf(result[c].pois[m]) : m \in DOMAIN result[c].pois})

\* C27: in output of the neighbor chain, cluster_1 holds the first input
\* point and the earliest member of each further cluster comes later in the
\* input than the earliest member of the cluster before it
C27_NumberedByFirstMember ==
    (Done /\ strategy = "knn") =>
        /\ result # <<>>
        /\ pois[1] \in Range(result[1].pois)
        /\ \A c \in DOMAIN result :
             /\ result[c].pois # <<>>
             /\ result[c].cluster_id = "cluster_" \o ToString(c)
             /\ c > 1 => Earliest(c - 1) < Earliest(c)

\* the neighbor chain returned three clusters, the first with a member that
\* comes later in the input than the first member of the second
C27_Witness ==
    /\ Done
    /\ strategy = "knn"
    /\ Len(result) = 3
    /\ \E m \in DOMAIN result[1].pois : IndexOf(result[1].pois[m]) > Earliest(2)

\* C21: get, set, delete and exists never raise, whatever the Redis client
\* does and whether or not it is initialised: when the client is missing or a
\* command fails, get returns None and set, delete and exists return False.
C21_NeverRaise ==
    cache_ret.op \in {"get", "set", "delete", "exists"} =>
        /\ ~cache_ret.raised
        /\ (cache_ret.caught \/ (enabled /\ redis = "None")) =>
               cache_ret.ret = (IF cache_ret.op = "get" THEN "None" ELSE "False")

\* a call failed at the client after an earlier call had stored a value
C21_Witness ==
    /\ cache_ret.op \in {"get", "set", "delete", "exists"}
    /\ cache_ret.caught
    /\ \E k \in DOMAIN store : Held(store, k)

\* C22: with caching disabled every operation returns its negative result
\* (get and increment None, set, delete, exists and set_with_lock False,
\* delete_pattern 0), no Redis command is issued and the stored contents stay
\* as they are.
NegativeResult ==
    [op \in {"none", "get", "set", "delete", "exists", "delete_pattern", "increment"} |->
        CASE op \in {"none", "get", "increment"} -> "None"
          [] op \in {"set", "delete", "exists"} -> "False"
          [] op = "delete_pattern" -> "0"]

DisabledResults ==
    ~enabled =>
        /\ cache_ret.ret = NegativeResult[cache_ret.op]
        /\ ~cache_ret.raised
        /\ \A p \in DOMAIN lp : lp[p].pc # "idle" => (lp[p].pc = "returned" /\ lp[p].ret = "False")
        /\ redis_ops = 0

C22_DisabledIsInert ==
    /\ []DisabledResults
    /\ [][~enabled => (store' = store /\ lock' = lock /\ redis_ops' = redis_ops)]_vars

\* caching is disabled, the server holds a key, and set_with_lock has
\* returned and so has delete_pattern
C22_Witness ==
    /\ ~enabled
    /\ Held(store, "k1")
    /\ cache_ret.op = "delete_pattern"
    /\ \E p \in DOMAIN lp : lp[p].pc = "returned"

\* the invocation is between acquiring lock:<key> and releasing it
InSection(p) == lp[p].acquired /\ lp[p].pc \in {"write", "release", "except"}

\* C28: at most one invocation of set_with_lock is between acquiring
\* lock:<key> and releasing it, under any interleaving, lock expiry and Redis
\* errors, and an invocation that did not acquire the lock never deletes a
\* lock another invocation holds.
C28_Original ==
    /\ Cardinality({p \in DOMAIN lp : InSection(p)}) <= 1
    /\ \A p \in DOMAIN lp : ~lp[p].foreign

\* C29: an invocation that acquired the lock has deleted lock:<key> when it
\* returns, after a write that succeeded and after one that failed.
C29_Original ==
    \A p \in DOMAIN lp : (lp[p].pc = "returned" /\ lp[p].acquired) => lp[p].deleted

\* C29 (amended): an invocation that acquired the lock has deleted
\* lock:<key> when it returns, after a write that succeeded and after one
\* that failed, unless the DEL of the release and the DEL of the except
\* branch both raised; the lock then stays until lock_timeout.
C29_ReleasedUnlessDeleteFails ==
    \A p \in DOMAIN lp :
        (lp[p].pc = "returned" /\ lp[p].acquired) =>
            \/ lp[p].del_fails = 2
            \/ (lp[p].deleted /\ lock # p)

\* an invocation whose write failed has released the lock and returned, and
\* the other invocation has acquired it
C29_Witness ==
    \E p, q \in DOMAIN lp :
        /\ lp[p].pc = "returned" /\ lp[p].acquired /\ lp[p].result = "False"
        /\ lp[p].deleted
        /\ lp[q].pc = "write" /\ lock = q

\* the call has ended: the wrapper returned or the function raised
WrapEnded == wrap.pc \in {"returned", "raised"}

\* the lookup of the call returned a value
Hit == wrap.cached_value # "None"

\* the arguments of two calls are the same: the same positional values and
\* the same value for every keyword
SameArguments(c1, c2) ==
    /\ c1.args = c2.args
    /\ {c1.kwargs[j] : j \in DOMAIN c1.kwargs} = {c2.kwargs[j] : j \in DOMAIN c2.kwargs}

\* a hit returns the cached value without executing the function; a miss
\* executes it exactly once; the same arguments give the same key
HitOrExecute ==
    /\ WrapEnded =>
          IF Hit THEN wrap.execs = 0 /\ wrap.pc = "returned" /\ wrap.ret = wrap.cached_value
          ELSE wrap.execs = 1
    /\ ~WrapEnded => wrap.execs <= 1
    /\ \A c1, c2 \in Calls : SameArguments(c1, c2) => WrapKey(c1) = WrapKey(c2)

\* the entry cache.set is asked to write for the result of the call
ResultEntry == <<dumps(wrap.result), IF wrap.ttl = 0 THEN CACHE_TTL ELSE wrap.ttl>>

\* C23: on a hit the cached value is returned and the function is not
\* executed; on a miss it is executed exactly once and its result is stored
\* under the same key with the given ttl; the key is the same for the same
\* arguments.
C23_Original ==
    /\ HitOrExecute
    /\ (wrap.pc = "returned" /\ ~Hit) => wrap.wrote = ResultEntry

\* C23 (amended): as above, and on a miss the result is handed to cache.set
\* under the same key with the given ttl (CACHE_TTL when ttl is None or 0):
\* it is stored when caching is enabled and the write did not fail, and is
\* returned without being stored otherwise.
C23_StoredWhenSetSucceeds ==
    /\ HitOrExecute
    /\ (wrap.pc = "returned" /\ ~Hit) =>
          /\ wrap.ret = wrap.result
          /\ wrap.wrote = (IF enabled /\ ~wrap.caught THEN ResultEntry ELSE <<>>)
          /\ wrap.wrote # <<>> => store[wrap.key] = wrap.wrote

\* a call with the keywords in the other order hits the entry an earlier
\* call stored
C23_Witness ==
    /\ wrap.pc = "returned"
    /\ Hit
    /\ wrap.call.kwargs # <<>>
    /\ wrap.call.kwargs # sorted_items(wrap.call.kwargs)

\* the number of calls of what that lifespan has made
Count(what) == Cardinality({j \in DOMAIN life : life[j][1] = what})

\* C24: lifespan connects the database and then Redis, each exactly once,
\* before the application serves; on shutdown it disconnects both exactly
\* once; a connection that fails at startup propagates and the application
\* does not start.
C24_Original ==
    /\ phase \in {"serving", "db_closed", "stopped"} =>
          /\ Len(life) >= 2
          /\ life[1] = <<"db.connect", "ok">>
          /\ life[2] = <<"redis.connect", "ok">>
          /\ Count("db.connect") = 1
          /\ Count("redis.connect") = 1
    /\ phase = "stopped" => (Count("db.disconnect") = 1 /\ Count("redis.disconnect") = 1)
    /\ (\E j \in DOMAIN life : life[j][1] \in {"db.connect", "redis.connect"} /\ life[j][2] = "raised")
          => phase = "failed"

\* C25: run_monthly_ingestion starts one ingest_destination run per
\* destination with today's date and returns without raising when every run
\* succeeds; it raises again only when a run fails.
C25_Original ==
    /\ sched.pc = "returned" =>
          /\ Len(sched.runs) = Len(sched.destinations)
          /\ \A j \in DOMAIN sched.runs :
                /\ sched.runs[j][1] = <<"city_name", sched.destinations[j][1]>>
                /\ <<"ingestion_date", sched.today>> \in {sched.runs[j][a] : a \in DOMAIN sched.runs[j]}
    /\ (sched.pc = "raised" /\ sched.error # "connect") => sched.failed # {}

\* the use of transaction() by u has ended
TxnEnded(u) == txn[u].pc \in {"returned", "raised"}

\* C30: every connection that transaction() acquires is released to the pool
\* exactly once, whether the body completes, raises, or the start, commit or
\* rollback of the transaction fails; it is committed only when the body
\* raised nothing and rolled back otherwise.
C30_Original ==
    \A u \in DOMAIN txn :
        /\ (TxnEnded(u) /\ txn[u].conn # 0) => txn[u].releases = 1
        /\ txn[u].releases <= 1
        /\ txn[u].committed => ~txn[u].body_raised
        /\ txn[u].rolled_back => txn[u].body_raised

====
